---- MODULE Spec2Model ----
(***************************************************************************)
(* Model of the cleaning pipeline of 1_BikeSaferPA_data.ipynb: the four    *)
(* raw tables (bicycles, persons, crashes, roadway) are recoded, repaired, *)
(* joined into the cyclists table, imputed, given the target column and    *)
(* exported.  A table is a sequence of rows, a row is a function from      *)
(* column names to cells, and the pandas index label of a row is its       *)
(* INDEX column.  Each action is one statement group of a notebook cell,   *)
(* taken in the order in which the notebook runs them.                     *)
(***************************************************************************)
EXTENDS Integers, Sequences, FiniteSets, TLC

VARIABLES pc, bicycles, persons, crashes, roadway, cyclists, exported, raw

vars == <<pc, bicycles, persons, crashes, roadway, cyclists, exported, raw>>

(***************************************************************************)
(* Cells.  A pandas cell holds a number, a string or NaN, and the code     *)
(* tells them apart (replace({'9':..., 97:...}) has string and integer     *)
(* keys), so a cell carries its type.                                      *)
(***************************************************************************)
NaN == <<"nan">>

Num(n) == <<"num", n>>

Str(s) == <<"str", s>>

IsNaN(v) == v = NaN

IsNum(v) == v[1] = "num"

IsStr(v) == v[1] = "str"

\* The value of the decimal tokens that occur in the raw files.
Numeral ==
  [s \in {"0", "1", "2", "3", "7", "9", "20", "21", "99"} |->
     CASE s = "0" -> 0 [] s = "1" -> 1 [] s = "2" -> 2 [] s = "3" -> 3
       [] s = "7" -> 7 [] s = "9" -> 9 [] s = "20" -> 20 [] s = "21" -> 21
       [] s = "99" -> 99]

\* pd.to_numeric(x, errors='coerce'): a numeric token is parsed, any other
\* string becomes NaN, numbers and NaN are kept.
ToNumeric(v) ==
  IF IsStr(v)
    THEN IF v[2] \in DOMAIN Numeral THEN Num(Numeral[v[2]]) ELSE NaN
    ELSE v

\* Variant of Replace: Series.map(dict), which gives NaN to a cell that is
\* no key.
Replace_AsMap(v, d) == IF v \in DOMAIN d THEN d[v] ELSE NaN

\* Series.replace(dict) on one cell: a cell equal to a key takes the key's
\* value, any other cell (NaN included) is kept.
Replace(v, d) == IF v \in DOMAIN d THEN d[v] ELSE v

\* Series.fillna(w) on one cell.
FillNa(v, w) == IF IsNaN(v) THEN w ELSE v

\* a == b of two pandas cells: NaN equals nothing, not even NaN.
CellEq(a, b) == ~IsNaN(a) /\ ~IsNaN(b) /\ a = b

(***************************************************************************)
(* Rows and tables.                                                        *)
(***************************************************************************)
SetCol(r, c, v) == [f \in DOMAIN r \cup {c} |-> IF f = c THEN v ELSE r[f]]

DropCols(r, cs) == [f \in DOMAIN r \ cs |-> r[f]]

KeepCols(r, cs) == [f \in cs |-> r[f]]

\* df.at[idx, c] = v: sets the cell of the row labelled idx; pandas appends
\* a row of NaN carrying the value when no row has that label.
AtSet(t, idx, c, v) ==
  IF \E i \in 1..Len(t) : t[i].INDEX = idx
    THEN [i \in 1..Len(t) |-> IF t[i].INDEX = idx THEN SetCol(t[i], c, v) ELSE t[i]]
    ELSE IF Len(t) = 0 THEN t
    ELSE Append(t, [f \in DOMAIN t[1] |->
                      IF f = "INDEX" THEN idx ELSE IF f = c THEN v ELSE NaN])

(***************************************************************************)
(* Recode dictionaries of the bicycles cell.                               *)
(***************************************************************************)
YesNoDict == (Str("Y") :> Num(1)) @@ (Str("N") :> Num(0)) @@ (Str("U") :> NaN)

UnitSentinelDict == (Str("U") :> NaN) @@ (Num(99) :> NaN)

GradeDict ==
  (Num(1) :> Str("level")) @@ (Num(2) :> Str("uphill")) @@
  (Num(3) :> Str("downhill")) @@ (Num(4) :> Str("bottom_hill")) @@
  (Num(5) :> Str("top_hill")) @@ (Num(9) :> NaN)

ImpactSideDict ==
  (Num(0) :> Str("non_collision")) @@ (Num(13) :> Str("top")) @@
  (Num(14) :> Str("undercarriage")) @@
  (Num(11) :> Str("front")) @@ (Num(12) :> Str("front")) @@ (Num(1) :> Str("front")) @@
  (Num(2) :> Str("front_right")) @@ (Num(3) :> Str("right")) @@
  (Num(4) :> Str("rear_right")) @@
  (Num(5) :> Str("rear")) @@ (Num(6) :> Str("rear")) @@ (Num(7) :> Str("rear")) @@
  (Num(8) :> Str("rear_left")) @@ (Num(9) :> Str("left")) @@
  (Num(10) :> Str("front_left")) @@ (Num(99) :> NaN)

RdwyAlignmentDict ==
  (Num(1) :> Str("straight")) @@ (Num(2) :> Str("curve")) @@
  (Num(3) :> Str("curve")) @@ (Num(4) :> Str("curve")) @@ (Num(9) :> NaN)

VehRoleDict ==
  (Num(0) :> Str("non_collision")) @@ (Num(1) :> Str("striking")) @@
  (Num(2) :> Str("struck")) @@ (Num(3) :> Str("striking_struck"))

VehTypeDict == (Num(20) :> Str("bicycle")) @@ (Num(21) :> Str("other_pedalcycle"))

VehPositionDict ==
  (Num(0) :> NaN) @@ (Num(1) :> Str("right_lane_curb")) @@ (Num(2) :> Str("right_lane")) @@
  (Num(3) :> Str("left_lane")) @@ (Num(4) :> Str("left_turn_lane")) @@
  (Num(5) :> Str("center_turn_lane")) @@ (Num(6) :> Str("other_forward_lane")) @@
  (Num(7) :> Str("oncoming_lane")) @@ (Num(8) :> Str("left_of_trafficway")) @@
  (Num(9) :> Str("right_of_trafficway")) @@ (Num(10) :> Str("HOV_lane")) @@
  (Num(11) :> Str("shoulder_right")) @@ (Num(12) :> Str("shoulder_left")) @@
  (Num(13) :> Str("one_lane_road")) @@ (Num(14) :> Str("acc_dec_lane")) @@
  (Num(98) :> Str("other")) @@ (Num(99) :> NaN)

VehMovementDict ==
  (Num(1) :> Str("straight")) @@ (Num(2) :> Str("slowing_or_stopping_in_lane")) @@
  (Num(3) :> Str("stopped_in_lane")) @@ (Num(4) :> Str("passing_vehicle")) @@
  (Num(5) :> Str("entering_lane")) @@ (Num(6) :> Str("parked")) @@
  (Num(7) :> Str("leaving_lane")) @@ (Num(8) :> Str("avoiding")) @@
  (Num(9) :> Str("turning_right_red")) @@ (Num(10) :> Str("turning_right")) @@
  (Num(11) :> Str("turning_left_red")) @@ (Num(12) :> Str("turning_left")) @@
  (Num(13) :> Str("u_turn")) @@ (Num(14) :> Str("backing")) @@
  (Num(15) :> Str("changing_merging")) @@
  (Num(16) :> Str("curve_right")) @@ (Num(17) :> Str("curve_left")) @@
  (Num(18) :> Str("entering_lane")) @@ (Num(19) :> Str("leaving_lane")) @@
  (Num(98) :> Str("other")) @@ (Num(99) :> NaN)

\* Variant of ImpactSide: the clock position 11 is taken for the front
\* left.
ImpactSide_ElevenIsFrontLeft(v) ==
  Replace(v, (Num(11) :> Str("front_left")) @@ ImpactSideDict)

\* bicycles['IMPACT_SIDE'] = bicycles['IMPACT_POINT'].replace({...})
ImpactSide(v) == Replace(v, ImpactSideDict)

\* The unit number given to a bicycle whose UNIT_NUM is missing.
UnitNumFill == 1

\* The whole bicycles cell, one row at a time (every statement of the cell
\* is row-local), in the order of the cell.
RecodeBicycleRow(r) ==
  LET r1 == [r EXCEPT !.RDWY_ALIGNMENT = ToNumeric(@), !.VEH_MOVEMENT = ToNumeric(@),
                      !.VEH_TYPE = ToNumeric(@), !.VEH_POSITION = ToNumeric(@),
                      !.VEH_ROLE = ToNumeric(@)]
      r2 == [r1 EXCEPT !.PC_HDLGHT_IND = Replace(@, YesNoDict),
                       !.PC_HLMT_IND = Replace(@, YesNoDict),
                       !.PC_REAR_RFLTR_IND = Replace(@, YesNoDict)]
      r3 == [r2 EXCEPT !.UNIT_NUM = Replace(@, UnitSentinelDict),
                       !.IMPACT_POINT = Replace(@, UnitSentinelDict)]
      r4 == [r3 EXCEPT !.GRADE = Replace(@, GradeDict)]
      r5 == SetCol(r4, "IMPACT_SIDE", ImpactSide(r4.IMPACT_POINT))
      r6 == [r5 EXCEPT !.RDWY_ALIGNMENT = Replace(@, RdwyAlignmentDict),
                       !.VEH_ROLE = Replace(@, VehRoleDict),
                       !.VEH_TYPE = Replace(@, VehTypeDict),
                       !.VEH_POSITION = Replace(@, VehPositionDict),
                       !.VEH_MOVEMENT = Replace(@, VehMovementDict)]
  IN  [r6 EXCEPT !.UNIT_NUM = FillNa(@, Num(UnitNumFill)),
                 !.VEH_ROLE = FillNa(@, Str("non_collision"))]

RecodeBicyclesTable(t) == [i \in 1..Len(t) |-> RecodeBicycleRow(t[i])]

(***************************************************************************)
(* Recode dictionaries of the persons cell.                                *)
(***************************************************************************)
PersonFlagDict ==
  (Str("Y") :> Num(1)) @@ (Str("N") :> Num(0)) @@ (Str("U") :> NaN) @@
  (Str("0") :> Num(0)) @@ (Str(" ") :> NaN) @@ (Str("R") :> NaN) @@
  (Str("9") :> NaN) @@ (Num(97) :> NaN)

AgeDict == (Num(99) :> NaN)

InjSeverityDict ==
  (Num(0) :> Str("no_injury")) @@ (Num(1) :> Str("killed")) @@
  (Num(2) :> Str("susp_serious_injury")) @@ (Num(3) :> Str("susp_minor_injury")) @@
  (Num(4) :> Str("possible_injury")) @@ (Num(8) :> Str("unknown_injury")) @@
  (Num(9) :> NaN)

PersonTypeDict ==
  (Num(1) :> Str("driver")) @@ (Num(2) :> Str("passenger")) @@
  (Num(7) :> Str("pedestrian")) @@ (Num(8) :> Str("other")) @@ (Num(9) :> NaN)

RestraintHelmetDict ==
  (Num(0) :> Str("no_restraint")) @@ (Num(1) :> Str("shoulder_belt")) @@
  (Num(2) :> Str("lap_belt")) @@ (Num(3) :> Str("lap_shoulder_belt")) @@
  (Num(4) :> Str("child_seat")) @@ (Num(5) :> Str("motorcycle_helmet")) @@
  (Num(6) :> Str("bicycle_helmet")) @@ (Num(10) :> Str("belt_improper")) @@
  (Num(11) :> Str("child_seat_improper")) @@ (Num(12) :> Str("helmet_improper")) @@
  (Num(21) :> Str("child_seat")) @@ (Num(22) :> Str("child_seat")) @@
  (Num(23) :> Str("booster_seat")) @@ (Num(24) :> Str("child_restraint_unknown")) @@
  (Num(90) :> Str("unknown_restraint")) @@ (Num(98) :> Str("other")) @@ (Num(99) :> NaN)

\* INJ_SEVERITY of a person: to_numeric, then the label dictionary.
InjSeverity(v) == Replace(ToNumeric(v), InjSeverityDict)

\* The row-local statements of the persons cell, in the order of the cell.
RecodePersonRow(r) ==
  LET r1 == [r EXCEPT !.AGE = Replace(@, AgeDict)]
      r2 == [r1 EXCEPT !.SEX = Replace(@, PersonFlagDict),
                       !.TRANSPORTED = Replace(@, PersonFlagDict),
                       !.UNIT_NUM = Replace(@, PersonFlagDict)]
  IN  [r2 EXCEPT !.INJ_SEVERITY = InjSeverity(@),
                 !.PERSON_TYPE = Replace(@, PersonTypeDict),
                 !.RESTRAINT_HELMET = Replace(@, RestraintHelmetDict)]

\* Index label and new unit number of the repair of the persons cell.
PersonFixIndex == 35557

PersonFixUnit == 2

\* The whole persons cell: the recodes, then persons.at[35557,'UNIT_NUM']=2.
RecodePersonsTable(t) ==
  AtSet([i \in 1..Len(t) |-> RecodePersonRow(t[i])],
        PersonFixIndex, "UNIT_NUM", Num(PersonFixUnit))

(***************************************************************************)
(* Recode dictionaries of the crashes cell.                                *)
(***************************************************************************)
TimeSentinelDict == (Num(9999) :> NaN)

HourOfDayDict == (Num(99) :> NaN) @@ (Num(24) :> Num(0))

CollisionTypeDict ==
  (Num(0) :> Str("non_collision")) @@ (Num(1) :> Str("rear_end")) @@
  (Num(2) :> Str("head_on")) @@ (Num(3) :> Str("backing")) @@ (Num(4) :> Str("angle")) @@
  (Num(5) :> Str("sideswipe_same_dir")) @@ (Num(6) :> Str("sideswipe_opp_dir")) @@
  (Num(7) :> Str("hit_fixed_obj")) @@ (Num(8) :> Str("hit_ped")) @@
  (Num(9) :> Str("other")) @@ (Num(98) :> Str("other")) @@ (Num(99) :> NaN)

IlluminationDict ==
  (Num(1) :> Str("daylight")) @@ (Num(2) :> Str("dark_unlit")) @@
  (Num(3) :> Str("dark_lit")) @@ (Num(4) :> Str("dusk")) @@ (Num(5) :> Str("dawn")) @@
  (Num(6) :> Str("dark_lit")) @@ (Num(8) :> Str("other")) @@ (Num(9) :> NaN)

RoadConditionDict ==
  (Num(1) :> Str("dry")) @@ (Num(2) :> Str("ice_frost")) @@
  (Num(3) :> Str("mud_dirt_gravel")) @@ (Num(4) :> Str("oil")) @@ (Num(5) :> Str("sand")) @@
  (Num(6) :> Str("slush")) @@ (Num(7) :> Str("snow")) @@ (Num(8) :> Str("water")) @@
  (Num(9) :> Str("wet")) @@ (Num(98) :> Str("other")) @@ (Num(0) :> NaN) @@ (Num(99) :> NaN)

UrbanRuralDict ==
  (Num(1) :> Str("rural")) @@ (Num(2) :> Str("urbanized")) @@ (Num(3) :> Str("urban"))

IntersectTypeDict ==
  (Num(0) :> Str("midblock")) @@ (Num(1) :> Str("four_way")) @@ (Num(2) :> Str("T")) @@
  (Num(3) :> Str("Y")) @@ (Num(4) :> Str("circle")) @@ (Num(5) :> Str("multi_leg")) @@
  (Num(6) :> Str("ramp_end")) @@ (Num(7) :> Str("ramp_begin")) @@
  (Num(8) :> Str("crossover")) @@ (Num(9) :> Str("rr_crossing")) @@
  (Num(10) :> Str("other")) @@ (Num(11) :> Str("L")) @@ (Num(12) :> Str("circle")) @@
  (Num(13) :> Str("circle")) @@ (Num(99) :> NaN)

LocationTypeDict ==
  (Num(0) :> Str("not_applicable")) @@ (Num(99) :> NaN) @@ (Num(1) :> Str("underpass")) @@
  (Num(2) :> Str("ramp")) @@ (Num(3) :> Str("bridge")) @@ (Num(4) :> Str("tunnel")) @@
  (Num(5) :> Str("toll_booth")) @@ (Num(6) :> Str("cross_over_related")) @@
  (Num(7) :> Str("driveway_parking_lot")) @@ (Num(8) :> Str("ramp_bridge"))

RelationToRoadDict ==
  (Num(1) :> Str("on_roadway")) @@ (Num(2) :> Str("shoulder")) @@ (Num(3) :> Str("median")) @@
  (Num(4) :> Str("roadside")) @@ (Num(5) :> Str("outside_trafficway")) @@
  (Num(6) :> Str("parking_lane")) @@ (Num(7) :> Str("int_ramp_hwy")) @@ (Num(9) :> NaN)

TcdTypeDict ==
  (Num(0) :> Str("not_applicable")) @@ (Num(1) :> Str("flashing_traffic_signal")) @@
  (Num(2) :> Str("traffic_signal")) @@ (Num(3) :> Str("stop_sign")) @@
  (Num(4) :> Str("yield_sign")) @@ (Num(5) :> Str("active_RR_controls")) @@
  (Num(6) :> Str("passive_RR_controls")) @@ (Num(7) :> Str("officer_or_flagman")) @@
  (Num(8) :> Str("other")) @@ (Num(9) :> NaN)

TcdFuncCdDict ==
  (Num(0) :> Str("no_controls")) @@ (Num(1) :> Str("not_functioning")) @@
  (Num(2) :> Str("functioning_improperly")) @@ (Num(3) :> Str("functioning_properly")) @@
  (Num(4) :> Str("emergency_preemptive_signal")) @@ (Num(9) :> NaN)

WeatherSentinelDict == (Num(99) :> NaN)

WeatherDict ==
  (Num(1) :> Str("blowing_sand_soil_dirt")) @@ (Num(2) :> Str("blowing_snow")) @@
  (Num(3) :> Str("clear")) @@ (Num(4) :> Str("cloudy")) @@ (Num(5) :> Str("fog_smog_smoke")) @@
  (Num(6) :> Str("freezing_rain")) @@ (Num(7) :> Str("rain")) @@
  (Num(8) :> Str("severe_crosswind")) @@ (Num(9) :> Str("sleet_hail")) @@
  (Num(10) :> Str("snow")) @@ (Num(98) :> Str("other"))

\* The recodes of the crashes cell up to the second to_numeric of the
\* weather columns, one row at a time.
RecodeCrashRow(r) ==
  LET r1 == [r EXCEPT !.WEATHER1 = ToNumeric(@), !.WEATHER2 = ToNumeric(@),
                      !.TIME_OF_DAY = ToNumeric(@)]
      r2 == [r1 EXCEPT !.DISPATCH_TM = Replace(@, TimeSentinelDict),
                       !.ARRIVAL_TM = Replace(@, TimeSentinelDict),
                       !.TIME_OF_DAY = Replace(@, TimeSentinelDict)]
      r3 == [r2 EXCEPT !.HOUR_OF_DAY = Replace(@, HourOfDayDict),
                       !.COLLISION_TYPE = Replace(@, CollisionTypeDict),
                       !.ILLUMINATION = Replace(@, IlluminationDict),
                       !.ROAD_CONDITION = Replace(@, RoadConditionDict),
                       !.URBAN_RURAL = Replace(@, UrbanRuralDict),
                       !.INTERSECT_TYPE = Replace(@, IntersectTypeDict),
                       !.LOCATION_TYPE = Replace(@, LocationTypeDict),
                       !.RELATION_TO_ROAD = Replace(@, RelationToRoadDict),
                       !.TCD_TYPE = Replace(@, TcdTypeDict),
                       !.TCD_FUNC_CD = Replace(@, TcdFuncCdDict)]
  IN  [r3 EXCEPT !.WEATHER1 = ToNumeric(@), !.WEATHER2 = ToNumeric(@)]

RecodeCrashesTable(t) == [i \in 1..Len(t) |-> RecodeCrashRow(t[i])]

\* The vehicle kinds whose <kind>_COUNT column gets a presence column <kind>.
CountFeats ==
  [BUS |-> "BUS_COUNT", HEAVY_TRUCK |-> "HEAVY_TRUCK_COUNT",
   SMALL_TRUCK |-> "SMALL_TRUCK_COUNT", SUV |-> "SUV_COUNT", VAN |-> "VAN_COUNT"]

\* Variant of Presence: a count that is not positive, a missing one
\* included, gives 0.
Presence_MissingIsZero(x) == IF IsNum(x) /\ x[2] > 0 THEN Num(1) ELSE Num(0)

\* lambda x: 1 if x>0 else x   (NaN > 0 is False)
Presence(x) == IF IsNum(x) /\ x[2] > 0 THEN Num(1) ELSE x

CountToPresenceRow(r) ==
  [f \in DOMAIN r \cup DOMAIN CountFeats |->
     IF f \in DOMAIN CountFeats THEN Presence(r[CountFeats[f]]) ELSE r[f]]

CountToPresenceTable(t) == [i \in 1..Len(t) |-> CountToPresenceRow(t[i])]

\* The code of 'clear' in WEATHER1.
WeatherClear == 3

\* Variant of ConsolidateWeather: a clear primary is kept whatever the
\* secondary.
ConsolidateWeather_KeepClear(raw1, raw2) ==
  FillNa(Replace(raw1, WeatherSentinelDict), Replace(raw2, WeatherSentinelDict))

\* The weather consolidation on the two cells of one row: the single value
\* left in WEATHER1 before it is renamed and given its label.
ConsolidateWeather(raw1, raw2) ==
  LET a0 == Replace(raw1, WeatherSentinelDict)
      b0 == Replace(raw2, WeatherSentinelDict)
      a1 == FillNa(a0, b0)
      b1 == IF CellEq(a1, b0) THEN NaN ELSE b0
  IN  IF a1 # Num(WeatherClear) \/ IsNaN(b1) THEN a1 ELSE b1

\* Consolidation, rename WEATHER1 to WEATHER, drop WEATHER2, label.
ConsolidateWeatherRow(r) ==
  SetCol(DropCols(r, {"WEATHER1", "WEATHER2"}), "WEATHER",
         Replace(ConsolidateWeather(r.WEATHER1, r.WEATHER2), WeatherDict))

ConsolidateWeatherTable(t) == [i \in 1..Len(t) |-> ConsolidateWeatherRow(t[i])]

(***************************************************************************)
(* Repairs of the crashes cell.                                            *)
(***************************************************************************)
\* Coordinates are held in units of 0.0001 degree.
FixNanIndex == 24770

FixAIndex == 3087

FixALat == 400081

FixALong == 0 - 751923

FixBIndex == 24805

FixBLat == 403322

FixBLong == 0 - 759278

\* The six crashes.at[...] assignments.
FixCoordinates(t) ==
  LET t1 == AtSet(t, FixNanIndex, "DEC_LAT", NaN)
      t2 == AtSet(t1, FixNanIndex, "DEC_LONG", NaN)
      t3 == AtSet(t2, FixAIndex, "DEC_LAT", Num(FixALat))
      t4 == AtSet(t3, FixAIndex, "DEC_LONG", Num(FixALong))
      t5 == AtSet(t4, FixBIndex, "DEC_LAT", Num(FixBLat))
  IN  AtSet(t5, FixBIndex, "DEC_LONG", Num(FixBLong))

RECURSIVE SumCells(_, _, _)
SumCells(t, c, S) ==
  IF S = {} THEN 0
  ELSE LET j == CHOOSE j \in S : TRUE IN t[j][c][2] + SumCells(t, c, S \ {j})

\* The rows of the group of key a that have a value in column c.
GroupRows(t, area, a, c) ==
  {j \in 1..Len(t) : t[j][area] = a /\ ~IsNaN(t[j][c])}

\* x.mean() of a group (NaN skipped; NaN when the group has no value), in
\* units of 0.0001 degree, rounded down.
GroupMean(t, area, a, c) ==
  LET S == GroupRows(t, area, a, c)
  IN  IF S = {} THEN NaN ELSE Num(SumCells(t, c, S) \div Cardinality(S))

\* crashes[c] = crashes.groupby(area)[c].transform(lambda x: x.fillna(x.mean()))
\* groupby leaves out the rows whose key is NaN, which get NaN on assignment.
GroupMeanFill(t, c, area) ==
  [i \in 1..Len(t) |->
     SetCol(t[i], c,
            IF IsNaN(t[i][area]) THEN NaN
            ELSE FillNa(t[i][c], GroupMean(t, area, t[i][area], c)))]

\* Variant of FillCoordinates: the county mean is tried before the
\* municipality mean.
FillCoordinates_CountyFirst(t) ==
  LET t1 == GroupMeanFill(t, "DEC_LAT", "COUNTY")
      t2 == GroupMeanFill(t1, "DEC_LAT", "MUNICIPALITY")
      t3 == GroupMeanFill(t2, "DEC_LONG", "COUNTY")
  IN  GroupMeanFill(t3, "DEC_LONG", "MUNICIPALITY")

\* for coord in [DEC_LAT, DEC_LONG]: for area in [MUNICIPALITY, COUNTY]: ...
FillCoordinates(t) ==
  LET t1 == GroupMeanFill(t, "DEC_LAT", "MUNICIPALITY")
      t2 == GroupMeanFill(t1, "DEC_LAT", "COUNTY")
      t3 == GroupMeanFill(t2, "DEC_LONG", "MUNICIPALITY")
  IN  GroupMeanFill(t3, "DEC_LONG", "COUNTY")

RepairGeolocationTable(t) == FillCoordinates(FixCoordinates(t))

\* Series.floordiv(100) on one cell.
FloorDiv100(v) == IF IsNum(v) THEN Num(v[2] \div 100) ELSE NaN

\* Variant of HourOfDay: the arrival time is tried before the dispatch
\* time.
HourOfDay_ArrivalFirst(h, tod, disp, arr) ==
  FillNa(FillNa(FillNa(h, FloorDiv100(tod)), FloorDiv100(arr)), FloorDiv100(disp))

\* The three fillna of HOUR_OF_DAY on the cells of one row.
HourOfDay(h, tod, disp, arr) ==
  FillNa(FillNa(FillNa(h, FloorDiv100(tod)), FloorDiv100(disp)), FloorDiv100(arr))

\* HOUR_OF_DAY fallbacks, ILLUMINATION.fillna('daylight'), drop of the
\* DISPATCH_TM and ARRIVAL_TM columns.
FillHourRow(r) ==
  LET r1 == [r EXCEPT !.HOUR_OF_DAY = HourOfDay(@, r.TIME_OF_DAY, r.DISPATCH_TM, r.ARRIVAL_TM),
                      !.ILLUMINATION = FillNa(@, Str("daylight"))]
  IN  DropCols(r1, {"DISPATCH_TM", "ARRIVAL_TM"})

FillHourTable(t) == [i \in 1..Len(t) |-> FillHourRow(t[i])]

(***************************************************************************)
(* Roadway: county mode fill and minimum per CRN.                          *)
(***************************************************************************)
SetMin(S) == CHOOSE m \in S : \A n \in S : m <= n

\* x.mode()[0]: the most frequent value of the group, the smallest on a tie.
GroupMode(t, area, a, c) ==
  LET S == GroupRows(t, area, a, c)
      cnt(v) == Cardinality({j \in S : t[j][c][2] = v})
      vals == {t[j][c][2] : j \in S}
  IN  Num(SetMin({v \in vals : \A w \in vals : cnt(v) >= cnt(w)}))

\* x.mode()[0] raises on a group without any value.
ModeRaises(t) ==
  \E i \in 1..Len(t) :
    ~IsNaN(t[i].RDWY_COUNTY) /\ GroupRows(t, "RDWY_COUNTY", t[i].RDWY_COUNTY, "SPEED_LIMIT") = {}

\* roadway['SPEED_LIMIT'] = roadway.groupby('RDWY_COUNTY')['SPEED_LIMIT']
\*    .apply(lambda x: x.fillna(x.mode()[0])).astype('int').droplevel(0)
FillSpeedLimitTable(t) ==
  [i \in 1..Len(t) |->
     SetCol(t[i], "SPEED_LIMIT",
            IF IsNaN(t[i].RDWY_COUNTY) THEN NaN
            ELSE FillNa(t[i].SPEED_LIMIT,
                        GroupMode(t, "RDWY_COUNTY", t[i].RDWY_COUNTY, "SPEED_LIMIT")))]

RECURSIVE SortedSeq(_)
SortedSeq(S) ==
  IF S = {} THEN <<>>
  ELSE LET m == SetMin(S) IN <<m>> \o SortedSeq(S \ {m})

\* min() of a group of SPEED_LIMIT cells, NaN skipped.
GroupMin(t, area, a, c) ==
  LET S == GroupRows(t, area, a, c)
  IN  IF S = {} THEN NaN ELSE Num(SetMin({t[j][c][2] : j \in S}))

\* pd.DataFrame(roadway.groupby('CRN').min().SPEED_LIMIT): one row per CRN,
\* in CRN order, with the CRN as index.
RoadwayMin(t) ==
  LET crns == SortedSeq({t[j].CRN[2] : j \in {k \in 1..Len(t) : IsNum(t[k].CRN)}})
  IN  [n \in 1..Len(crns) |->
         [CRN |-> Num(crns[n]), SPEED_LIMIT |-> GroupMin(t, "CRN", Num(crns[n]), "SPEED_LIMIT")]]

(***************************************************************************)
(* Merges.                                                                 *)
(***************************************************************************)
\* The RangeIndex that a merge gives its result.
Reindex(t) == [i \in 1..Len(t) |-> SetCol(t[i], "INDEX", i - 1)]

\* The rows that a left row l yields in a how='left' merge: one per right
\* row with equal keys, in the order of the right table, and one with NaN
\* in the right columns when there is none.
MergeRow(l, R, keys, rcols) ==
  LET ms == SelectSeq(R, LAMBDA r : \A k \in keys : r[k] = l[k])
  IN  IF Len(ms) = 0
        THEN << [f \in DOMAIN l \cup rcols |-> IF f \in DOMAIN l THEN l[f] ELSE NaN] >>
        ELSE [m \in 1..Len(ms) |->
                [f \in DOMAIN l \cup rcols |-> IF f \in DOMAIN l THEN l[f] ELSE ms[m][f]]]

RECURSIVE MergeFrom(_, _, _, _, _)
MergeFrom(L, R, keys, rcols, i) ==
  IF i > Len(L) THEN <<>>
  ELSE MergeRow(DropCols(L[i], {"INDEX"}), R, keys, rcols)
         \o MergeFrom(L, R, keys, rcols, i + 1)

\* L.merge(R, on=keys, how='left'); rcols are the columns of R but the keys.
LeftMerge(L, R, keys, rcols) == Reindex(MergeFrom(L, R, keys, rcols, 1))

\* Variant of MergeRoadwayTable: the roadway rows are merged as they are,
\* without the minimum per CRN.
MergeRoadwayTable_NoGroupBy(c, r) == LeftMerge(c, r, {"CRN"}, {"SPEED_LIMIT"})

\* crashes.merge(<minimum SPEED_LIMIT per CRN>, how='left', on='CRN')
MergeRoadwayTable(c, r) == LeftMerge(c, RoadwayMin(r), {"CRN"}, {"SPEED_LIMIT"})

\* The columns of persons that go into cyclists.
PersonCols ==
  {"CRN", "UNIT_NUM", "INJ_SEVERITY", "PERSON_TYPE", "AGE", "SEX", "RESTRAINT_HELMET"}

\* The columns of the recoded bicycles table but the merge keys.
BicycleCols ==
  {"VEH_TYPE", "VEH_ROLE", "VEH_POSITION", "VEH_MOVEMENT", "RDWY_ALIGNMENT", "GRADE",
   "IMPACT_POINT", "IMPACT_SIDE", "PC_HDLGHT_IND", "PC_HLMT_IND", "PC_REAR_RFLTR_IND"}

\* cyclists = persons[cols].merge(bicycles, on=['CRN','UNIT_NUM'], how='left')
\* cyclists = cyclists[cyclists.VEH_TYPE.notnull()]
MergeBicyclesTable(p, b) ==
  SelectSeq(LeftMerge([i \in 1..Len(p) |-> KeepCols(p[i], PersonCols \cup {"INDEX"})],
                      b, {"CRN", "UNIT_NUM"}, BicycleCols),
            LAMBDA r : ~IsNaN(r.VEH_TYPE))

\* The columns of crashes that go into cyclists, but the key CRN (the
\* circumstance flags and date columns, which no statement touches, are
\* not modelled).
CrashCols ==
  {"COUNTY", "MUNICIPALITY", "BUS_COUNT", "HEAVY_TRUCK_COUNT", "SMALL_TRUCK_COUNT",
   "SUV_COUNT", "VAN_COUNT", "HOUR_OF_DAY", "COLLISION_TYPE", "ILLUMINATION",
   "INTERSECT_TYPE", "LOCATION_TYPE", "RELATION_TO_ROAD", "ROAD_CONDITION", "TCD_TYPE",
   "TCD_FUNC_CD", "URBAN_RURAL", "WEATHER", "BUS", "HEAVY_TRUCK", "SMALL_TRUCK", "SUV",
   "VAN", "SPEED_LIMIT"}

\* cyclists.merge(crashes[cols], on=['CRN'], how='left').drop('VEH_TYPE', axis=1)
MergeCrashesTable(cy, c) ==
  LET m == LeftMerge(cy, c, {"CRN"}, CrashCols)
  IN  [i \in 1..Len(m) |-> DropCols(m[i], {"VEH_TYPE"})]

(***************************************************************************)
(* The last code cell: immediate fills and derived columns.                *)
(***************************************************************************)
\* WEATHER after the first .loc assignment.
CrossFillWeather(w, rc) == IF CellEq(rc, Str("dry")) /\ IsNaN(w) THEN Str("clear") ELSE w

\* Variant of CrossFillRoad: every missing road condition is filled from
\* the weather, rain or not.
CrossFillRoad_AnyWeather(w, rc) ==
  IF ~IsNaN(w) /\ IsNaN(rc) THEN (IF w = Str("clear") THEN Str("dry") ELSE Str("wet")) ELSE rc

\* ROAD_CONDITION after the second .loc assignment, w being the weather
\* left by the first.
CrossFillRoad(w, rc) == IF CellEq(w, Str("rain")) /\ IsNaN(rc) THEN Str("wet") ELSE rc

CrossFillRow(r) ==
  LET w == CrossFillWeather(r.WEATHER, r.ROAD_CONDITION)
  IN  [r EXCEPT !.WEATHER = w, !.ROAD_CONDITION = CrossFillRoad(w, r.ROAD_CONDITION)]

CrossFillTable(t) == [i \in 1..Len(t) |-> CrossFillRow(t[i])]

\* Variant of UnknownFeats: GRADE is left out of the list.
UnknownFeats_NoGrade == {"RESTRAINT_HELMET", "IMPACT_SIDE", "VEH_POSITION"}

UnknownFeats == {"RESTRAINT_HELMET", "IMPACT_SIDE", "GRADE", "VEH_POSITION"}

\* Variant of FillUnknownRow: fillna('unknown') on the whole table.
FillUnknownRow_AllColumns(r) ==
  [f \in DOMAIN r |-> IF f = "INDEX" THEN r[f] ELSE FillNa(r[f], Str("unknown"))]

FillUnknownRow(r) ==
  [f \in DOMAIN r |-> IF f \in UnknownFeats THEN FillNa(r[f], Str("unknown")) ELSE r[f]]

FillUnknownTable(t) == [i \in 1..Len(t) |-> FillUnknownRow(t[i])]

\* Variant of SeriousOrFatality: the label of a suspected serious injury
\* as the notebook's plan spells it.
SeriousOrFatality_PlanLabel(x) ==
  IF x \in {Str("killed"), Str("susp_serious_inj")} THEN Num(1) ELSE Num(0)

\* lambda x: 1 if x in ['killed','susp_serious_injury'] else 0
SeriousOrFatality(x) ==
  IF x \in {Str("killed"), Str("susp_serious_injury")} THEN Num(1) ELSE Num(0)

AgeBinLabels ==
  <<"(0, 10]", "(10, 20]", "(20, 30]", "(30, 40]", "(40, 50]", "(50, 60]", "(60, 70]",
    "(70, 80]", "(80, 90]", "(90, 100]">>

\* pd.cut(AGE, bins=range(0,101,10)).astype('str'): right-closed bins;
\* an age in no bin and a missing age give the string 'nan'.
AgeBin(a) ==
  IF IsNum(a) /\ a[2] > 0 /\ a[2] <= 100
    THEN Str(AgeBinLabels[((a[2] - 1) \div 10) + 1])
    ELSE Str("nan")

DeriveRow(r) ==
  SetCol(SetCol(r, "SERIOUS_OR_FATALITY", SeriousOrFatality(r.INJ_SEVERITY)),
         "AGE_BINS", AgeBin(r.AGE))

DeriveTable(t) == [i \in 1..Len(t) |-> DeriveRow(t[i])]

(***************************************************************************)
(* The raw tables.                                                         *)
(***************************************************************************)
\* Crash record numbers of the persons, bicycles and roadway rows: 1..MaxCRN.
MaxCRN == 2

\* Unit numbers 1..MaxUnit.
MaxUnit == 2

\* Vehicle counts 0..MaxCount.
MaxCount == 2

\* At most MaxSegments roadway rows.
MaxSegments == 3

RawBicycle(idx, crn, unit, vtype, impact) ==
  [INDEX |-> idx, CRN |-> Num(crn), UNIT_NUM |-> unit, VEH_TYPE |-> vtype,
   VEH_ROLE |-> Num(2), VEH_POSITION |-> Num(0), VEH_MOVEMENT |-> Str("1"),
   RDWY_ALIGNMENT |-> Num(1), GRADE |-> Num(9), IMPACT_POINT |-> impact,
   PC_HDLGHT_IND |-> Str("N"), PC_HLMT_IND |-> Str("Y"), PC_REAR_RFLTR_IND |-> Str("U")]

RawPerson(idx, crn, unit, pnum, inj) ==
  [INDEX |-> idx, CRN |-> Num(crn), UNIT_NUM |-> unit, PERSON_NUM |-> Num(pnum),
   INJ_SEVERITY |-> inj, PERSON_TYPE |-> Num(1), AGE |-> Num(34), SEX |-> Str("U"),
   TRANSPORTED |-> Str("Y"), RESTRAINT_HELMET |-> Num(99)]

RawCrash(idx, crn) ==
  [INDEX |-> idx, CRN |-> Num(crn), COUNTY |-> Num(1), MUNICIPALITY |-> Num(1),
   BUS_COUNT |-> Num(0), HEAVY_TRUCK_COUNT |-> Num(0), SMALL_TRUCK_COUNT |-> Num(0),
   SUV_COUNT |-> Num(0), VAN_COUNT |-> Num(0),
   HOUR_OF_DAY |-> Num(24), TIME_OF_DAY |-> Num(1530), DISPATCH_TM |-> Num(9999),
   ARRIVAL_TM |-> Num(1545),
   COLLISION_TYPE |-> Num(4), ILLUMINATION |-> Num(9), ROAD_CONDITION |-> Num(1),
   URBAN_RURAL |-> Num(3), INTERSECT_TYPE |-> Num(0), LOCATION_TYPE |-> Num(0),
   RELATION_TO_ROAD |-> Num(1), TCD_TYPE |-> Num(0), TCD_FUNC_CD |-> Num(0),
   WEATHER1 |-> Num(3), WEATHER2 |-> Num(99),
   DEC_LAT |-> Num(400000), DEC_LONG |-> Num(0 - 750000)]

RawSegment(idx, crn, county, speed) ==
  [INDEX |-> idx, CRN |-> Num(crn), RDWY_COUNTY |-> Num(county), SPEED_LIMIT |-> speed]

\* The crashes of the raw file that the model follows: an ordinary row and
\* the three rows that the coordinate corrections name, with CRN 1 to 4.
BaseCrashes ==
  <<RawCrash(0, 1), RawCrash(FixAIndex, 2), RawCrash(FixNanIndex, 3), RawCrash(FixBIndex, 4)>>

BaseBicycles == <<RawBicycle(0, 1, Num(1), Num(20), Num(12)), RawBicycle(1, 2, Num(1), Num(21), Num(0))>>

BasePersons ==
  <<RawPerson(0, 1, Num(1), 1, Num(3)), RawPerson(PersonFixIndex, 2, Num(1), 1, Num(0))>>

BaseRoadway == <<RawSegment(0, 1, 1, Num(25)), RawSegment(1, 1, 1, Num(35))>>

UnitCells == {Num(u) : u \in 1..MaxUnit}

\* The start of a run on the raw tables in: the state after read_csv.
Start(in) ==
  /\ pc = "recode_bicycles"
  /\ raw = in
  /\ bicycles = in.bicycles
  /\ persons = in.persons
  /\ crashes = in.crashes
  /\ roadway = in.roadway
  /\ cyclists = <<>>
  /\ exported = <<>>

(***************************************************************************)
(* The steps of the notebook.                                              *)
(***************************************************************************)
RecodeBicycles ==
  /\ pc = "recode_bicycles"
  /\ bicycles' = RecodeBicyclesTable(bicycles)
  /\ pc' = "recode_persons"
  /\ UNCHANGED <<persons, crashes, roadway, cyclists, exported, raw>>

RecodePersons ==
  /\ pc = "recode_persons"
  /\ persons' = RecodePersonsTable(persons)
  /\ pc' = "recode_crashes"
  /\ UNCHANGED <<bicycles, crashes, roadway, cyclists, exported, raw>>

RecodeCrashes ==
  /\ pc = "recode_crashes"
  /\ crashes' = RecodeCrashesTable(crashes)
  /\ pc' = "count_to_presence"
  /\ UNCHANGED <<bicycles, persons, roadway, cyclists, exported, raw>>

CountToPresence ==
  /\ pc = "count_to_presence"
  /\ crashes' = CountToPresenceTable(crashes)
  /\ pc' = "consolidate_weather"
  /\ UNCHANGED <<bicycles, persons, roadway, cyclists, exported, raw>>

ConsolidateWeatherStep ==
  /\ pc = "consolidate_weather"
  /\ crashes' = ConsolidateWeatherTable(crashes)
  /\ pc' = "repair_geolocation"
  /\ UNCHANGED <<bicycles, persons, roadway, cyclists, exported, raw>>

RepairGeolocation ==
  /\ pc = "repair_geolocation"
  /\ crashes' = RepairGeolocationTable(crashes)
  /\ pc' = "fill_hour"
  /\ UNCHANGED <<bicycles, persons, roadway, cyclists, exported, raw>>

FillHour ==
  /\ pc = "fill_hour"
  /\ crashes' = FillHourTable(crashes)
  /\ pc' = "fill_speed_limit"
  /\ UNCHANGED <<bicycles, persons, roadway, cyclists, exported, raw>>

\* The statement raises, and the run ends, when a county has no speed limit.
FillSpeedLimit ==
  /\ pc = "fill_speed_limit"
  /\ IF ModeRaises(roadway)
       THEN pc' = "failed" /\ UNCHANGED roadway
       ELSE pc' = "merge_roadway" /\ roadway' = FillSpeedLimitTable(roadway)
  /\ UNCHANGED <<bicycles, persons, crashes, cyclists, exported, raw>>

\* The merge of the minimum speed limit, then del roadway.
MergeRoadway ==
  /\ pc = "merge_roadway"
  /\ crashes' = MergeRoadwayTable(crashes, roadway)
  /\ roadway' = <<>>
  /\ pc' = "merge_bicycles"
  /\ UNCHANGED <<bicycles, persons, cyclists, exported, raw>>

MergeBicycles ==
  /\ pc = "merge_bicycles"
  /\ cyclists' = MergeBicyclesTable(persons, bicycles)
  /\ pc' = "merge_crashes"
  /\ UNCHANGED <<bicycles, persons, crashes, roadway, exported, raw>>

\* The merge of the crash columns, then del persons.
MergeCrashes ==
  /\ pc = "merge_crashes"
  /\ cyclists' = MergeCrashesTable(cyclists, crashes)
  /\ persons' = <<>>
  /\ pc' = "cross_fill"
  /\ UNCHANGED <<bicycles, crashes, roadway, exported, raw>>

\* Variant of CrossFill: the cell goes on to the derived columns, the
\* 'unknown' fills coming too late.
CrossFill_ThenDerive ==
  /\ pc = "cross_fill"
  /\ cyclists' = CrossFillTable(cyclists)
  /\ pc' = "derive"
  /\ UNCHANGED <<bicycles, persons, crashes, roadway, exported, raw>>

CrossFill ==
  /\ pc = "cross_fill"
  /\ cyclists' = CrossFillTable(cyclists)
  /\ pc' = "fill_unknown"
  /\ UNCHANGED <<bicycles, persons, crashes, roadway, exported, raw>>

FillUnknown ==
  /\ pc = "fill_unknown"
  /\ cyclists' = FillUnknownTable(cyclists)
  /\ pc' = "derive"
  /\ UNCHANGED <<bicycles, persons, crashes, roadway, exported, raw>>

Derive ==
  /\ pc = "derive"
  /\ cyclists' = DeriveTable(cyclists)
  /\ pc' = "export"
  /\ UNCHANGED <<bicycles, persons, crashes, roadway, exported, raw>>

\* cyclists.to_csv('cyclists.csv'), crashes.to_csv('crashes.csv')
Export ==
  /\ pc = "export"
  /\ exported' = [cyclists |-> cyclists, crashes |-> crashes]
  /\ pc' = "done"
  /\ UNCHANGED <<bicycles, persons, crashes, roadway, cyclists, raw>>

Next ==
  \/ RecodeBicycles
  \/ RecodePersons
  \/ RecodeCrashes
  \/ CountToPresence
  \/ ConsolidateWeatherStep
  \/ RepairGeolocation
  \/ FillHour
  \/ FillSpeedLimit
  \/ MergeRoadway
  \/ MergeBicycles
  \/ MergeCrashes
  \/ CrossFill
  \/ FillUnknown
  \/ Derive
  \/ Export

(***************************************************************************)
(* Runs on persons and bicycles tables of two rows each.                   *)
(***************************************************************************)
BicycleUnitCells == UnitCells \cup {Num(99), Str("U"), NaN}

VehTypeCells == {Num(20), Num(21), Num(5), Str("20"), Str("U"), NaN}

PersonUnitCells == UnitCells \cup {Num(97), Str("U")}

InjSeverityCells ==
  {Num(0), Num(1), Num(2), Num(3), Num(4), Num(8), Num(9), Num(5), Str("1"), Str("U"), NaN}

\* Every injury severity against every vehicle type.
InputsSeverity ==
  {[bicycles |-> <<RawBicycle(0, 1, Num(1), vt, Num(12)), BaseBicycles[2]>>,
    persons |-> <<RawPerson(0, 1, u, 1, inj), BasePersons[2]>>,
    crashes |-> BaseCrashes, roadway |-> BaseRoadway] :
     vt \in VehTypeCells, u \in UnitCells, inj \in InjSeverityCells}

\* Every combination of the keys of the two bicycles and the two persons.
InputsKeys ==
  {[bicycles |-> <<RawBicycle(0, 1, ua, Num(20), Num(12)), RawBicycle(1, cb, ub, Num(21), Num(0))>>,
    persons |-> <<RawPerson(0, 1, pa, 1, Num(1)), RawPerson(PersonFixIndex, cp, pb, n, Num(0))>>,
    crashes |-> BaseCrashes, roadway |-> BaseRoadway] :
     ua \in BicycleUnitCells, cb \in 1..MaxCRN, ub \in UnitCells,
     pa \in PersonUnitCells, cp \in 1..MaxCRN, pb \in UnitCells, n \in 1..2}

ImpactPointCells == {Num(n) : n \in 0..14} \cup {Num(99), Str("U"), NaN}

\* Every impact point on the first bicycle.
InputsImpact ==
  {[bicycles |-> <<RawBicycle(0, 1, Num(1), Num(20), ip), BaseBicycles[2]>>,
    persons |-> BasePersons, crashes |-> BaseCrashes, roadway |-> BaseRoadway] :
     ip \in ImpactPointCells}

Init == \E in \in InputsSeverity \cup InputsKeys \cup InputsImpact : Start(in)

Spec == Init /\ [][Next]_vars

(***************************************************************************)
(* Runs on crashes whose weather, road condition and vehicle counts vary.  *)
(***************************************************************************)
WeatherCells ==
  {Num(n) : n \in 1..10} \cup {Num(98), Num(99), NaN, Str("7"), Str("U")}

RoadConditionCells == {Num(1), Num(9), Num(7), Num(0), Num(99), NaN}

CountCells == {Num(n) : n \in 0..MaxCount} \cup {NaN}

\* Two cyclists: the person of the second row rides the second bicycle.
TwoCyclists ==
  [bicycles |-> <<BaseBicycles[1], RawBicycle(1, 2, Num(2), Num(21), Num(0))>>,
   persons |-> BasePersons, roadway |-> BaseRoadway]

WithCrashes(c) ==
  [bicycles |-> TwoCyclists.bicycles, persons |-> TwoCyclists.persons,
   crashes |-> c, roadway |-> TwoCyclists.roadway]

\* Every pair of weather cells against every road condition, first crash.
InputsWeather ==
  {WithCrashes([BaseCrashes EXCEPT ![1] =
                  [@ EXCEPT !.WEATHER1 = w1, !.WEATHER2 = w2, !.ROAD_CONDITION = rc]]) :
     w1 \in WeatherCells, w2 \in WeatherCells, rc \in RoadConditionCells}

\* Weather and road condition of the crashes of both cyclists.
InputsCrossFill ==
  {WithCrashes([BaseCrashes EXCEPT
                  ![1] = [@ EXCEPT !.WEATHER1 = wa, !.WEATHER2 = NaN, !.ROAD_CONDITION = ra],
                  ![2] = [@ EXCEPT !.WEATHER1 = wb, !.WEATHER2 = NaN, !.ROAD_CONDITION = rb]]) :
     wa \in {Num(3), Num(7), Num(4), Num(99)}, ra \in {Num(1), Num(9), Num(7), Num(99)},
     wb \in {Num(3), Num(7), Num(4), Num(99)}, rb \in {Num(1), Num(9), Num(7), Num(99)}}

\* Every combination of the five vehicle counts of the first crash.
InputsCounts ==
  {WithCrashes([BaseCrashes EXCEPT ![1] =
                  [@ EXCEPT !.BUS_COUNT = b, !.HEAVY_TRUCK_COUNT = h, !.SMALL_TRUCK_COUNT = t,
                            !.SUV_COUNT = u, !.VAN_COUNT = v]]) :
     b \in CountCells, h \in CountCells, t \in CountCells, u \in CountCells, v \in CountCells}

InitCrash == \E in \in InputsWeather \cup InputsCrossFill \cup InputsCounts : Start(in)

SpecCrash == InitCrash /\ [][Next]_vars

(***************************************************************************)
(* Runs on roadway tables of up to MaxSegments rows.                       *)
(***************************************************************************)
SpeedCells == {Num(25), Num(35), NaN}

SegmentCells == {<<c, k, s>> : c \in 1..MaxCRN, k \in 1..2, s \in SpeedCells}

\* No statement depends on the order of the roadway rows: one table per
\* multiset of segments, its rows in the order of SegmentRank.
SegmentRank(g) == g[1] * 100 + g[2] * 10 + (IF IsNaN(g[3]) THEN 0 ELSE g[3][2] \div 10)

RoadwayTables ==
  UNION {{t \in [1..n -> SegmentCells] :
            \A i \in 1..n : \A j \in i..n : SegmentRank(t[i]) <= SegmentRank(t[j])} :
         n \in 0..MaxSegments}

InputsRoadway ==
  {[bicycles |-> TwoCyclists.bicycles, persons |-> TwoCyclists.persons,
    crashes |-> BaseCrashes,
    roadway |-> [i \in 1..Len(t) |-> RawSegment(i - 1, t[i][1], t[i][2], t[i][3])]] :
     t \in RoadwayTables}

InitRoadway == \E in \in InputsRoadway : Start(in)

SpecRoadway == InitRoadway /\ [][Next]_vars

(***************************************************************************)
(* Runs on crashes whose four time cells vary and on persons whose age     *)
(* varies.                                                                 *)
(***************************************************************************)
HourCells == {Num(0), Num(13), Num(24), Num(99), NaN}

TimeCells == {Num(0), Num(930), Num(2400), Num(9999), NaN}

\* TIME_OF_DAY also comes as text.
TimeOfDayCells == TimeCells \cup {Str("U")}

\* Every combination of the four time cells of the first crash.
InputsHour ==
  {WithCrashes([BaseCrashes EXCEPT ![1] =
                  [@ EXCEPT !.HOUR_OF_DAY = h, !.TIME_OF_DAY = tod, !.DISPATCH_TM = d,
                            !.ARRIVAL_TM = a]]) :
     h \in HourCells, tod \in TimeOfDayCells, d \in TimeCells, a \in TimeCells}

AgeCells ==
  {Num(0), Num(1), Num(9), Num(10), Num(11), Num(34), Num(40), Num(90), Num(98), Num(99),
   Num(100), Num(101), NaN}

\* Every age on the first person, on a crash with and without an hour.
InputsAge ==
  {[bicycles |-> TwoCyclists.bicycles,
    persons |-> <<[BasePersons[1] EXCEPT !.AGE = a], BasePersons[2]>>,
    crashes |-> [BaseCrashes EXCEPT ![1] = [@ EXCEPT !.HOUR_OF_DAY = h, !.TIME_OF_DAY = NaN,
                                                     !.ARRIVAL_TM = Num(9999)]],
    roadway |-> TwoCyclists.roadway] :
     a \in AgeCells, h \in {Num(13), Num(99)}}

InitTime == \E in \in InputsHour \cup InputsAge : Start(in)

SpecTime == InitTime /\ [][Next]_vars

(***************************************************************************)
(* Runs on five crashes spread over four municipalities (1, 2 and 3 in     *)
(* county 1, 4 in county 2) with coordinates present or missing.           *)
(***************************************************************************)
InputsGeo ==
  {WithCrashes(
     [i \in 1..5 |->
        [(IF i = 5 THEN RawCrash(1, 5) ELSE BaseCrashes[i]) EXCEPT
           !.MUNICIPALITY = Num(m[i]),
           !.COUNTY = Num(IF m[i] = 4 THEN 2 ELSE 1),
           !.DEC_LAT = IF i = 1 THEN la ELSE IF i = 5 THEN lb ELSE @,
           !.DEC_LONG = IF i = 1 THEN lo ELSE @]]) :
     m \in {f \in [1..5 -> 1..4] : f[2] \in 1..2 /\ f[4] = 4},
     la \in {Num(410001), NaN}, lb \in {Num(420000), NaN},
     lo \in {Num(0 - 750000), NaN}}

InitGeo == \E in \in InputsGeo : Start(in)

SpecGeo == InitGeo /\ [][Next]_vars

(***************************************************************************)
(* Runs on bicycles and persons whose coded fields vary: known codes,      *)
(* sentinels, codes that no dictionary knows, text and missing.            *)
(***************************************************************************)
\* Helmet, grade, vehicle position and impact point of the first cyclist.
InputsUnknownFeats ==
  {[bicycles |-> <<[BaseBicycles[1] EXCEPT !.GRADE = g, !.VEH_POSITION = vp,
                                           !.IMPACT_POINT = ip],
                   TwoCyclists.bicycles[2]>>,
    persons |-> <<[BasePersons[1] EXCEPT !.RESTRAINT_HELMET = rh], BasePersons[2]>>,
    crashes |-> BaseCrashes, roadway |-> BaseRoadway] :
     g \in {Num(1), Num(7), Num(9), NaN},
     vp \in {Num(0), Num(1), Num(99), Str("U"), NaN},
     ip \in {Num(12), Num(99), Str("U")},
     rh \in {Num(6), Num(0), Num(99), NaN}}

\* The columns of bicycles and persons that the recodes read as numbers
\* only; the other recoded columns also hold text.
NumericCols == {"GRADE", "AGE", "PERSON_TYPE", "RESTRAINT_HELMET"}

\* One coded cell of the first bicycle or of the first person takes a
\* known code, a code that no dictionary knows, a numeral, a text or no
\* value.
InputsCodes ==
  {[bicycles |-> <<[BaseBicycles[1] EXCEPT ![f] = v], TwoCyclists.bicycles[2]>>,
    persons |-> BasePersons, crashes |-> BaseCrashes, roadway |-> BaseRoadway] :
     f \in {"UNIT_NUM", "VEH_TYPE", "VEH_ROLE", "VEH_POSITION", "VEH_MOVEMENT", "RDWY_ALIGNMENT",
            "IMPACT_POINT", "PC_HDLGHT_IND", "PC_HLMT_IND", "PC_REAR_RFLTR_IND"},
     v \in {Num(1), Num(77), Str("7"), Str("X"), NaN}}
  \cup
  {[bicycles |-> TwoCyclists.bicycles,
    persons |-> <<[BasePersons[1] EXCEPT ![f] = v], BasePersons[2]>>,
    crashes |-> BaseCrashes, roadway |-> BaseRoadway] :
     f \in {"UNIT_NUM", "INJ_SEVERITY", "SEX", "TRANSPORTED"},
     v \in {Num(1), Num(77), Str("7"), Str("X"), NaN}}
  \cup
  {[bicycles |-> <<[BaseBicycles[1] EXCEPT !.GRADE = g], TwoCyclists.bicycles[2]>>,
    persons |-> <<[BasePersons[1] EXCEPT ![f] = v], BasePersons[2]>>,
    crashes |-> BaseCrashes, roadway |-> BaseRoadway] :
     g \in {Num(2), Num(77)}, f \in NumericCols \ {"GRADE"}, v \in {Num(1), Num(77), NaN}}

\* The second cyclist is in a crash, number 9, that the crashes table does
\* not hold.
InputsJoinGap ==
  {[bicycles |-> <<BaseBicycles[1], RawBicycle(1, 9, Num(2), Num(21), Num(0))>>,
    persons |-> <<BasePersons[1], RawPerson(PersonFixIndex, 9, Num(1), 1, inj)>>,
    crashes |-> BaseCrashes, roadway |-> BaseRoadway] :
     inj \in {Num(0), Num(1)}}

InitFields == \E in \in InputsUnknownFeats \cup InputsCodes \cup InputsJoinGap : Start(in)

SpecFields == InitFields /\ [][Next]_vars

(***************************************************************************)
(* Runs on the persons of the crash that the repair of the persons cell    *)
(* is about, in every order of the rows of the file.                       *)
(***************************************************************************)
\* The crash of the repair, CRN 2 here: its cyclist and its motorist both
\* carry UNIT_NUM 1, the cyclist wears a bicycle helmet (code 6) and the
\* motorist a lap and shoulder belt (code 3).  The third person is the
\* cyclist of crash 1.
OrderRecords(inj) ==
  <<[RawPerson(0, 2, Num(1), 1, inj) EXCEPT !.RESTRAINT_HELMET = Num(6)],
    [RawPerson(0, 2, Num(1), 1, Num(0)) EXCEPT !.RESTRAINT_HELMET = Num(3), !.AGE = Num(50)],
    [RawPerson(0, 1, Num(1), 1, Num(3)) EXCEPT !.RESTRAINT_HELMET = Num(6)]>>

\* The labels that read_csv gives to the three rows (a RangeIndex: the
\* label of a row is its position in the file).
OrderLabels == <<0, 1, PersonFixIndex>>

InputsOrder ==
  {[bicycles |-> BaseBicycles,
    persons |-> [k \in 1..3 |-> [OrderRecords(inj)[p[k]] EXCEPT !.INDEX = OrderLabels[k]]],
    crashes |-> BaseCrashes, roadway |-> BaseRoadway] :
     p \in {f \in [1..3 -> 1..3] : \A a, b \in 1..3 : f[a] = f[b] => a = b},
     inj \in {Num(0), Num(1), Num(3)}}

InitOrder == \E in \in InputsOrder : Start(in)

SpecOrder == InitOrder /\ [][Next]_vars

(***************************************************************************)
(* Properties.                                                             *)
(***************************************************************************)
\* The steps at which the persons table is recoded and not yet deleted.
PersonsRecoded ==
  pc \in {"recode_crashes", "count_to_presence", "consolidate_weather", "repair_geolocation",
          "fill_hour", "fill_speed_limit", "merge_roadway", "merge_bicycles", "merge_crashes",
          "failed"}

BicyclesRecoded == pc # "recode_bicycles"

SeriousLabels == {Str("killed"), Str("susp_serious_injury")}

\* The raw persons rows of crash number crn.
RawPersonsOf(crn) == {i \in 1..Len(raw.persons) : raw.persons[i].CRN = crn}

\* C1: a row of cyclists has SERIOUS_OR_FATALITY 1 if and only if its
\* injury-severity label is 'killed' or 'susp_serious_injury', that is if
\* and only if the raw INJ_SEVERITY of the person is the code 1 or 2; every
\* other label, every unrecognized code and a missing value give 0.
C1_SeriousOrFatality ==
  /\ PersonsRecoded =>
       \A i \in 1..Len(raw.persons) :
         persons[i].INJ_SEVERITY \in SeriousLabels
           <=> ToNumeric(raw.persons[i].INJ_SEVERITY) \in {Num(1), Num(2)}
  /\ pc \in {"export", "done"} =>
       \A i \in 1..Len(cyclists) :
         /\ cyclists[i].SERIOUS_OR_FATALITY \in {Num(0), Num(1)}
         /\ cyclists[i].SERIOUS_OR_FATALITY = Num(1)
              <=> cyclists[i].INJ_SEVERITY \in SeriousLabels
         /\ \A p \in RawPersonsOf(cyclists[i].CRN) :
              RawPersonsOf(cyclists[i].CRN) = {p} =>
                (cyclists[i].SERIOUS_OR_FATALITY = Num(1)
                   <=> ToNumeric(raw.persons[p].INJ_SEVERITY) \in {Num(1), Num(2)})

\* A final cyclists table with a killed cyclist (flag 1) and a cyclist with
\* another label (flag 0).
C1_Witness ==
  /\ pc = "done"
  /\ \E i, j \in 1..Len(cyclists) :
       /\ cyclists[i].INJ_SEVERITY = Str("killed")
       /\ cyclists[i].SERIOUS_OR_FATALITY = Num(1)
       /\ cyclists[j].INJ_SEVERITY = Str("no_injury")
       /\ cyclists[j].SERIOUS_OR_FATALITY = Num(0)

PedalCycleLabels == {Str("bicycle"), Str("other_pedalcycle")}

\* C2: in every row of cyclists the VEH_TYPE used for the selection is not
\* missing and is 'bicycle' or 'other_pedalcycle', whatever the VEH_TYPE
\* column of the bicycles table holds.
C2_VehTypeIsPedalCycle ==
  pc = "merge_crashes" =>
    \A i \in 1..Len(cyclists) : cyclists[i].VEH_TYPE \in PedalCycleLabels

\* Two rows of a table with the same cells in the columns ks.
HasDuplicate(t, ks) ==
  \E i, j \in 1..Len(t) : i # j /\ \A k \in ks : t[i][k] = t[j][k]

\* The raw tables with the sentinels of UNIT_NUM read as missing.
RawBicycleKeys ==
  [i \in 1..Len(raw.bicycles) |->
     [raw.bicycles[i] EXCEPT !.UNIT_NUM = Replace(@, UnitSentinelDict)]]

RawPersonKeys ==
  [i \in 1..Len(raw.persons) |->
     [raw.persons[i] EXCEPT !.UNIT_NUM = Replace(@, PersonFlagDict)]]

\* The raw keys are unique, but for a collision of the person row that the
\* repair names.
RawKeysUnique ==
  /\ ~HasDuplicate(RawBicycleKeys, {"CRN", "UNIT_NUM"})
  /\ \A i, j \in 1..Len(raw.persons) :
       (i # j /\ \A k \in {"CRN", "UNIT_NUM", "PERSON_NUM"} : RawPersonKeys[i][k] = RawPersonKeys[j][k])
         => PersonFixIndex \in {raw.persons[i].INDEX, raw.persons[j].INDEX}

\* C5: after the recodes and repairs (CRN, UNIT_NUM) is unique among the
\* bicycles and (CRN, UNIT_NUM, PERSON_NUM) among the persons, when the raw
\* keys were unique but for the known collision.
C5_KeysUnique ==
  (PersonsRecoded /\ RawKeysUnique) =>
    /\ ~HasDuplicate(bicycles, {"CRN", "UNIT_NUM"})
    /\ ~HasDuplicate(persons, {"CRN", "UNIT_NUM", "PERSON_NUM"})

ImpactSides ==
  {Str("front"), Str("front_left"), Str("front_right"), Str("left"), Str("right"),
   Str("rear"), Str("rear_left"), Str("rear_right"),
   Str("non_collision"), Str("undercarriage"), Str("top")}

\* C9: for every impact point code in 0..14 and the sentinel 99, IMPACT_SIDE
\* is one of the eight sides, non_collision, undercarriage, top or missing;
\* 11, 12 and 1 give 'front', 0 gives 'non_collision', 99 gives missing.
C9_ImpactSide ==
  BicyclesRecoded =>
    \A i \in 1..Len(raw.bicycles) :
      LET ip == raw.bicycles[i].IMPACT_POINT
          side == bicycles[i].IMPACT_SIDE
      IN  (IsNum(ip) /\ ip[2] \in (0..14) \cup {99}) =>
            /\ side \in ImpactSides \cup {NaN}
            /\ ip[2] \in {11, 12, 1} => side = Str("front")
            /\ ip[2] = 0 => side = Str("non_collision")
            /\ ip[2] = 99 <=> IsNaN(side)

\* A recoded bicycles table with a clock position 11 turned into 'front'
\* and an impact point 0 turned into 'non_collision'.
C9_Witness ==
  /\ BicyclesRecoded
  /\ \E i, j \in 1..Len(raw.bicycles) :
       /\ raw.bicycles[i].IMPACT_POINT = Num(11)
       /\ bicycles[i].IMPACT_SIDE = Str("front")
       /\ raw.bicycles[j].IMPACT_POINT = Num(0)
       /\ bicycles[j].IMPACT_SIDE = Str("non_collision")

\* The steps at which the crashes table has its single WEATHER column.
WeatherConsolidated ==
  pc \notin {"recode_bicycles", "recode_persons", "recode_crashes", "count_to_presence",
             "consolidate_weather"}

\* A raw weather cell with the sentinel 99 and the non-numeric tokens read
\* as missing.
WeatherRead(v) == IF ToNumeric(v) = Num(99) THEN NaN ELSE ToNumeric(v)

WeatherLabel(v) == IF v \in DOMAIN WeatherDict THEN WeatherDict[v] ELSE v

\* C7: for raw WEATHER1 and WEATHER2 that are known codes, the sentinel 99
\* or missing, WEATHER is the secondary value when the primary is missing,
\* the secondary value when the primary is 'clear' and the secondary is
\* present and different, the primary value otherwise; the columns
\* WEATHER1 and WEATHER2 are gone.
C7_WeatherConsolidation ==
  WeatherConsolidated =>
    \A i \in 1..Len(raw.crashes) :
      LET p == WeatherRead(raw.crashes[i].WEATHER1)
          q == WeatherRead(raw.crashes[i].WEATHER2)
      IN  ({p, q} \subseteq DOMAIN WeatherDict \cup {NaN}) =>
            /\ "WEATHER2" \notin DOMAIN crashes[i]
            /\ "WEATHER1" \notin DOMAIN crashes[i]
            /\ crashes[i].WEATHER =
                 WeatherLabel(IF IsNaN(p) THEN q
                              ELSE IF p = Num(3) /\ ~IsNaN(q) /\ q # p THEN q
                              ELSE p)

\* A consolidated crash whose clear primary gave way to a rainy secondary.
C7_Witness ==
  /\ WeatherConsolidated
  /\ \E i \in 1..Len(raw.crashes) :
       /\ raw.crashes[i].WEATHER1 = Num(3)
       /\ raw.crashes[i].WEATHER2 = Num(7)
       /\ crashes[i].WEATHER = Str("rain")

\* C8: the cross fill sets WEATHER to 'clear' exactly in the rows with road
\* condition 'dry' and no weather, sets ROAD_CONDITION to 'wet' exactly in
\* the rows with weather 'rain' and no road condition, and changes no
\* other cell of these two columns.
C8_CrossFill ==
  [][pc = "cross_fill" =>
       /\ Len(cyclists') = Len(cyclists)
       /\ \A i \in 1..Len(cyclists) :
            /\ cyclists'[i].WEATHER =
                 IF cyclists[i].ROAD_CONDITION = Str("dry") /\ IsNaN(cyclists[i].WEATHER)
                   THEN Str("clear") ELSE cyclists[i].WEATHER
            /\ cyclists'[i].ROAD_CONDITION =
                 IF cyclists[i].WEATHER = Str("rain") /\ IsNaN(cyclists[i].ROAD_CONDITION)
                   THEN Str("wet") ELSE cyclists[i].ROAD_CONDITION]_vars

\* The crashes rows of a cyclist.
CrashesOf(r) == {j \in 1..Len(crashes) : crashes[j].CRN = r.CRN}

\* After the cross fill: a cyclist whose weather was filled with 'clear'
\* and a cyclist whose road condition was filled with 'wet' (the crashes
\* table keeps the missing values).
C8_Witness ==
  /\ pc = "fill_unknown"
  /\ \E i, j \in 1..Len(cyclists) :
       /\ cyclists[i].WEATHER = Str("clear")
       /\ cyclists[i].ROAD_CONDITION = Str("dry")
       /\ \A k \in CrashesOf(cyclists[i]) : IsNaN(crashes[k].WEATHER)
       /\ cyclists[j].WEATHER = Str("rain")
       /\ cyclists[j].ROAD_CONDITION = Str("wet")
       /\ \A k \in CrashesOf(cyclists[j]) : IsNaN(crashes[k].ROAD_CONDITION)

PresenceDerived ==
  pc \notin {"recode_bicycles", "recode_persons", "recode_crashes", "count_to_presence"}

\* C10: each of BUS, HEAVY_TRUCK, SMALL_TRUCK, SUV and VAN is 1 exactly
\* when its count is greater than 0, 0 when the count is 0 and missing when
\* the count is missing.
C10_CountToPresence ==
  PresenceDerived =>
    \A i \in 1..Len(raw.crashes) :
      \A f \in {"BUS", "HEAVY_TRUCK", "SMALL_TRUCK", "SUV", "VAN"} :
        LET n == raw.crashes[i][CountFeats[f]]
        IN  /\ crashes[i][f] \in {Num(0), Num(1), NaN}
            /\ crashes[i][f] = Num(1) <=> (IsNum(n) /\ n[2] > 0)
            /\ crashes[i][f] = Num(0) <=> n = Num(0)
            /\ IsNaN(crashes[i][f]) <=> IsNaN(n)

\* A crash with two buses, no heavy truck and a missing van count.
C10_Witness ==
  /\ PresenceDerived
  /\ \E i \in 1..Len(raw.crashes) :
       /\ raw.crashes[i].BUS_COUNT = Num(2) /\ crashes[i].BUS = Num(1)
       /\ raw.crashes[i].HEAVY_TRUCK_COUNT = Num(0) /\ crashes[i].HEAVY_TRUCK = Num(0)
       /\ IsNaN(raw.crashes[i].VAN_COUNT) /\ IsNaN(crashes[i].VAN)

(***************************************************************************)
(* The whole run as a function of the raw tables.                          *)
(***************************************************************************)
\* The crashes table that is exported from the raw tables in.
ExportedCrashes(in) ==
  MergeRoadwayTable(
    FillHourTable(RepairGeolocationTable(ConsolidateWeatherTable(
      CountToPresenceTable(RecodeCrashesTable(in.crashes))))),
    FillSpeedLimitTable(in.roadway))

\* The cyclists table that is exported from the raw tables in.
ExportedCyclists(in) ==
  DeriveTable(FillUnknownTable(CrossFillTable(
    MergeCrashesTable(
      MergeBicyclesTable(RecodePersonsTable(in.persons), RecodeBicyclesTable(in.bicycles)),
      ExportedCrashes(in)))))

\* The rows of crash number crn in a table, without their index labels.
RowsOfCrash(t, crn) ==
  LET rows == SelectSeq(t, LAMBDA r : r.CRN = crn)
  IN  [i \in 1..Len(rows) |-> DropCols(rows[i], {"INDEX"})]

\* The raw roadway rows of crash number crn, and those with a speed limit.
RawSegmentsOf(crn) == {j \in 1..Len(raw.roadway) : raw.roadway[j].CRN = crn}

RawSpeedsOf(crn) ==
  {raw.roadway[j].SPEED_LIMIT[2] : j \in {k \in RawSegmentsOf(crn) : ~IsNaN(raw.roadway[k].SPEED_LIMIT)}}

\* C3: every cyclists row has exactly one crashes row of its CRN and one
\* SPEED_LIMIT cell, and neither merge duplicates a row: whatever the
\* number of roadway segments of a CRN, the merge of the roadway minimum
\* leaves the crashes rows as they were, one for one, and the merge of the
\* crash columns leaves the number and the order of the cyclists rows.
C3_NoDuplication ==
  /\ [](pc = "merge_crashes" =>
          \A i \in 1..Len(cyclists) : Cardinality(CrashesOf(cyclists[i])) = 1)
  /\ [][/\ pc = "merge_roadway" =>
             /\ Len(crashes') = Len(crashes)
             /\ \A i \in 1..Len(crashes) :
                  DropCols(crashes'[i], {"INDEX", "SPEED_LIMIT"}) = DropCols(crashes[i], {"INDEX"})
        /\ pc = "merge_crashes" =>
             /\ Len(cyclists') = Len(cyclists)
             /\ \A i \in 1..Len(cyclists) :
                  /\ cyclists'[i].CRN = cyclists[i].CRN
                  /\ cyclists'[i].UNIT_NUM = cyclists[i].UNIT_NUM]_vars

\* After both merges: two cyclists, one on a crash with several roadway
\* segments and one on a crash with none.
C3_Witness ==
  /\ pc = "cross_fill"
  /\ Len(crashes) = Len(raw.crashes)
  /\ \E i, j \in 1..Len(cyclists) :
       /\ Cardinality(RawSegmentsOf(cyclists[i].CRN)) >= 2
       /\ RawSegmentsOf(cyclists[j].CRN) = {}
       /\ IsNaN(cyclists[j].SPEED_LIMIT)

SpeedMerged ==
  pc \in {"merge_bicycles", "merge_crashes", "cross_fill", "fill_unknown", "derive", "export",
          "done"}

\* C4: the SPEED_LIMIT of a crash with roadway segments is the minimum of
\* the speed limits recorded on the segments of its CRN, also when some of
\* these segments have no speed limit.
C4_MinimumSpeedLimit ==
  SpeedMerged =>
    \A i \in 1..Len(crashes) :
      RawSpeedsOf(crashes[i].CRN) # {} =>
        crashes[i].SPEED_LIMIT = Num(SetMin(RawSpeedsOf(crashes[i].CRN)))

\* The raw tables with one cell of one table replaced.
WithCell(in, table, j, col, v) ==
  [in EXCEPT ![table] = [@ EXCEPT ![j] = [@ EXCEPT ![col] = v]]]

\* The raw tables that differ from raw in one speed limit or one
\* coordinate of a crash other than crn, and on which the run ends.
OtherCrashVariants(crn) ==
  {in \in {WithCell(raw, "roadway", j, "SPEED_LIMIT", v) :
             j \in {k \in 1..Len(raw.roadway) : raw.roadway[k].CRN # crn}, v \in SpeedCells}
          \cup
          {WithCell(raw, "crashes", j, "DEC_LAT", v) :
             j \in {k \in 1..Len(raw.crashes) : raw.crashes[k].CRN # crn},
             v \in {Num(400000), Num(410000)}} :
     ~ModeRaises(in.roadway)}

\* C6: no statistic of the whole dataset is in the exported tables: the
\* exported rows of a crash are the same on raw tables that differ only in
\* the records of other crashes.
C6_NoDatasetStatistic ==
  pc = "done" =>
    \A c \in 1..Len(raw.crashes) :
      LET crn == raw.crashes[c].CRN
      IN  \A in \in OtherCrashVariants(crn) :
            /\ RowsOfCrash(ExportedCrashes(in), crn) = RowsOfCrash(exported.crashes, crn)
            /\ RowsOfCrash(ExportedCyclists(in), crn) = RowsOfCrash(exported.cyclists, crn)

\* The steps at which the fallbacks of HOUR_OF_DAY have run.
HourFilled ==
  pc \in {"fill_speed_limit", "merge_roadway", "merge_bicycles", "merge_crashes", "cross_fill",
          "fill_unknown", "derive", "export", "done", "failed"}

\* A raw time cell that holds a time: a number other than the sentinel 9999.
TimePresent(v) == IsNum(v) /\ v[2] # 9999

\* C11: a recorded hour (not missing, not the sentinel 99) is kept by the
\* fallbacks (24 being recoded as 0); a missing hour is TIME_OF_DAY
\* integer-divided by 100 when TIME_OF_DAY is present, otherwise DISPATCH_TM
\* integer-divided by 100 when present, otherwise ARRIVAL_TM
\* integer-divided by 100 when present, and stays missing only when all
\* four are missing (9999 and text counting as missing).
C11_HourFallbackChain ==
  HourFilled =>
    \A i \in 1..Len(raw.crashes) :
      LET h == raw.crashes[i].HOUR_OF_DAY
          tod == raw.crashes[i].TIME_OF_DAY
          disp == raw.crashes[i].DISPATCH_TM
          arr == raw.crashes[i].ARRIVAL_TM
      IN  crashes[i].HOUR_OF_DAY =
            IF IsNum(h) /\ h[2] # 99 THEN (IF h[2] = 24 THEN Num(0) ELSE h)
            ELSE IF TimePresent(tod) THEN Num(tod[2] \div 100)
            ELSE IF TimePresent(disp) THEN Num(disp[2] \div 100)
            ELSE IF TimePresent(arr) THEN Num(arr[2] \div 100)
            ELSE NaN

\* After the fallbacks: a crash whose hour comes from the dispatch time
\* although it has an arrival time of another hour, and a crash whose
\* recorded hour 24 was kept as 0.
C11_Witness ==
  /\ HourFilled
  /\ \E i \in 1..Len(raw.crashes) :
       /\ raw.crashes[i].HOUR_OF_DAY = Num(99)
       /\ raw.crashes[i].TIME_OF_DAY = Num(9999)
       /\ raw.crashes[i].DISPATCH_TM = Num(930)
       /\ raw.crashes[i].ARRIVAL_TM = Num(0)
       /\ crashes[i].HOUR_OF_DAY = Num(9)
  /\ \E j \in 1..Len(raw.crashes) :
       raw.crashes[j].HOUR_OF_DAY = Num(24) /\ crashes[j].HOUR_OF_DAY = Num(0)

\* The rows of t in the area (municipality or county) of row i.
SameArea(t, area, i) == {j \in 1..Len(t) : t[j][area] = t[i][area]}

\* The rows of t in the municipality of row i that hold coordinate c.
MunicipalityValues(t, i, c) == {j \in SameArea(t, "MUNICIPALITY", i) : ~IsNaN(t[j][c])}

\* v is the mean (in units of 0.0001 degree, rounded down) of coordinate c
\* over the rows S of t.
IsMeanOf(v, t, c, S) ==
  /\ S # {}
  /\ IsNum(v)
  /\ v[2] * Cardinality(S) <= SumCells(t, c, S)
  /\ SumCells(t, c, S) < (v[2] + 1) * Cardinality(S)

C13_UnknownFill ==
  /\ [][pc = "fill_unknown" =>
          /\ Len(cyclists') = Len(cyclists)
          /\ \A i \in 1..Len(cyclists) :
               \A f \in {"RESTRAINT_HELMET", "IMPACT_SIDE", "GRADE", "VEH_POSITION"} :
                 cyclists'[i][f] =
                   IF IsNaN(cyclists[i][f]) THEN Str("unknown") ELSE cyclists[i][f]]_vars
  /\ [](pc \in {"derive", "export", "done"} =>
          \A i \in 1..Len(cyclists) :
            \A f \in {"RESTRAINT_HELMET", "IMPACT_SIDE", "GRADE", "VEH_POSITION"} :
              ~IsNaN(cyclists[i][f]))
  /\ [](pc = "done" =>
          /\ exported.cyclists = cyclists
          /\ \A i \in 1..Len(exported.cyclists) :
               \A f \in {"RESTRAINT_HELMET", "IMPACT_SIDE", "GRADE", "VEH_POSITION"} :
                 ~IsNaN(exported.cyclists[i][f]))

\* An exported cyclist whose grade, recorded as the sentinel 9, is
\* 'unknown' and whose helmet and vehicle position are the recorded ones,
\* and an exported cyclist whose helmet is 'unknown'.
C13_Witness ==
  /\ pc = "done"
  /\ \E i, j \in 1..Len(exported.cyclists) :
       /\ exported.cyclists[i].GRADE = Str("unknown")
       /\ exported.cyclists[i].RESTRAINT_HELMET = Str("bicycle_helmet")
       /\ exported.cyclists[i].VEH_POSITION = Str("right_lane_curb")
       /\ exported.cyclists[i].IMPACT_SIDE = Str("front")
       /\ \E b \in 1..Len(raw.bicycles) :
            raw.bicycles[b].CRN = exported.cyclists[i].CRN /\ raw.bicycles[b].GRADE = Num(9)
       /\ exported.cyclists[j].RESTRAINT_HELMET = Str("unknown")

\* The labels that a decade bin of age n may carry: the bin whose label
\* spans the decade of n and, for a multiple of ten, also the bin that
\* closes on n.
DecadeBins(n) ==
  {Str(AgeBinLabels[(n \div 10) + 1])} \cup
  (IF n % 10 = 0 /\ n > 0 THEN {Str(AgeBinLabels[n \div 10])} ELSE {})

\* C14: in the final cyclists table every age a with 0 <= a < 100 has the
\* bin of its decade in AGE_BINS (34 has "(30, 40]"), and an age outside
\* that range or a missing age has no bin: a missing value or its text
\* 'nan', never a bin label.
C14_AgeBins ==
  pc \in {"export", "done"} =>
    \A i \in 1..Len(cyclists) :
      LET a == cyclists[i].AGE
      IN  IF IsNum(a) /\ 0 <= a[2] /\ a[2] < 100
            THEN cyclists[i].AGE_BINS \in DecadeBins(a[2])
            ELSE cyclists[i].AGE_BINS \in {NaN, Str("nan")}

\* A raw crash without any hour: no recorded hour and no time.
NoHour(r) ==
  /\ ~(IsNum(r.HOUR_OF_DAY) /\ r.HOUR_OF_DAY[2] # 99)
  /\ ~TimePresent(r.TIME_OF_DAY)
  /\ ~TimePresent(r.DISPATCH_TM)
  /\ ~TimePresent(r.ARRIVAL_TM)

\* C15: in the exported tables the AGE of a cyclist is the recorded age,
\* and missing when the recorded age is missing or the sentinel 99; the
\* HOUR_OF_DAY of a crash without any hour, and of its cyclists, is
\* missing: no median or mode stands in for either.
C15_DeferredStayMissing ==
  pc = "done" =>
    /\ \A i \in 1..Len(exported.cyclists) :
         \A p \in RawPersonsOf(exported.cyclists[i].CRN) :
           RawPersonsOf(exported.cyclists[i].CRN) = {p} =>
             exported.cyclists[i].AGE =
               IF raw.persons[p].AGE = Num(99) THEN NaN ELSE raw.persons[p].AGE
    /\ \A c \in 1..Len(raw.crashes) :
         NoHour(raw.crashes[c]) =>
           /\ exported.crashes[c].CRN = raw.crashes[c].CRN
           /\ IsNaN(exported.crashes[c].HOUR_OF_DAY)
           /\ \A i \in 1..Len(exported.cyclists) :
                exported.cyclists[i].CRN = raw.crashes[c].CRN =>
                  IsNaN(exported.cyclists[i].HOUR_OF_DAY)

\* An exported cyclist whose age was recorded as the sentinel 99 and
\* whose crash has no hour: both cells are missing.
C15_Witness ==
  /\ pc = "done"
  /\ \E i \in 1..Len(exported.cyclists) :
       /\ IsNaN(exported.cyclists[i].AGE)
       /\ IsNaN(exported.cyclists[i].HOUR_OF_DAY)
       /\ \E p \in RawPersonsOf(exported.cyclists[i].CRN) : raw.persons[p].AGE = Num(99)
       /\ \E c \in 1..Len(raw.crashes) :
            /\ raw.crashes[c].CRN = exported.cyclists[i].CRN
            /\ NoHour(raw.crashes[c])
            /\ IsNaN(exported.crashes[c].HOUR_OF_DAY)

\* C16: the recodes of a table applied to the table they have produced
\* change nothing: for the bicycles, the persons and the crashes table,
\* recode(recode(t)) = recode(t), whatever the raw cells were.
C16_RecodeIdempotent ==
  /\ BicyclesRecoded => RecodeBicyclesTable(bicycles) = bicycles
  /\ PersonsRecoded => RecodePersonsTable(persons) = persons
  /\ pc = "count_to_presence" => RecodeCrashesTable(crashes) = crashes

\* The columns that the recodes first coerce to numbers.
CoercedCols ==
  {"RDWY_ALIGNMENT", "VEH_MOVEMENT", "VEH_TYPE", "VEH_POSITION", "VEH_ROLE", "INJ_SEVERITY"}

\* The dictionary (labels and sentinels) of each recoded column.
BicycleDicts ==
  [PC_HDLGHT_IND |-> YesNoDict, PC_HLMT_IND |-> YesNoDict, PC_REAR_RFLTR_IND |-> YesNoDict,
   UNIT_NUM |-> UnitSentinelDict, IMPACT_POINT |-> UnitSentinelDict, GRADE |-> GradeDict,
   RDWY_ALIGNMENT |-> RdwyAlignmentDict, VEH_ROLE |-> VehRoleDict, VEH_TYPE |-> VehTypeDict,
   VEH_POSITION |-> VehPositionDict, VEH_MOVEMENT |-> VehMovementDict]

PersonDicts ==
  [AGE |-> AgeDict, SEX |-> PersonFlagDict, TRANSPORTED |-> PersonFlagDict,
   UNIT_NUM |-> PersonFlagDict, INJ_SEVERITY |-> InjSeverityDict,
   PERSON_TYPE |-> PersonTypeDict, RESTRAINT_HELMET |-> RestraintHelmetDict]

\* The code that a raw cell of column f stands for: itself, or its number
\* when f is coerced and the cell is a numeral; no code (NaN) when the
\* cell is missing or is text in a coerced column.
CodeOf(f, v) ==
  IF f \notin CoercedCols \/ ~IsStr(v) THEN v
  ELSE IF v[2] \in DOMAIN Numeral THEN Num(Numeral[v[2]])
  ELSE NaN

\* A code that the dictionary of its column does not know.
Unrecognized(d, code) == ~IsNaN(code) /\ code \notin DOMAIN d

\* C17: a code that is neither a sentinel nor a key of the dictionary of
\* its column is still in its cell after the recodes of bicycles and
\* persons (the text of a column that is coerced to numbers counting as
\* missing, and the unit number of the repaired person row apart); an
\* unrecognized impact point is also the IMPACT_SIDE; no row is dropped.
C17_UnrecognizedPreserved ==
  /\ BicyclesRecoded =>
       /\ Len(bicycles) = Len(raw.bicycles)
       /\ \A i \in 1..Len(raw.bicycles) :
            /\ \A f \in DOMAIN BicycleDicts :
                 Unrecognized(BicycleDicts[f], CodeOf(f, raw.bicycles[i][f])) =>
                   bicycles[i][f] = CodeOf(f, raw.bicycles[i][f])
            /\ (/\ Unrecognized(UnitSentinelDict, raw.bicycles[i].IMPACT_POINT)
                /\ Unrecognized(ImpactSideDict, raw.bicycles[i].IMPACT_POINT)) =>
                 bicycles[i].IMPACT_SIDE = raw.bicycles[i].IMPACT_POINT
  /\ PersonsRecoded =>
       /\ Len(persons) = Len(raw.persons)
       /\ \A i \in 1..Len(raw.persons) :
            \A f \in DOMAIN PersonDicts :
              (/\ Unrecognized(PersonDicts[f], CodeOf(f, raw.persons[i][f]))
               /\ ~(f = "UNIT_NUM" /\ raw.persons[i].INDEX = PersonFixIndex)) =>
                persons[i][f] = CodeOf(f, raw.persons[i][f])

\* After the recodes: a person whose helmet code 77, which the dictionary
\* does not know, is still 77, next to a bicycle whose grade 77 is still
\* 77; both rows are in their tables.
C17_Witness ==
  /\ PersonsRecoded
  /\ Len(persons) = Len(raw.persons)
  /\ Len(bicycles) = Len(raw.bicycles)
  /\ \E i \in 1..Len(raw.persons) :
       raw.persons[i].RESTRAINT_HELMET = Num(77) /\ persons[i].RESTRAINT_HELMET = Num(77)
  /\ \E i \in 1..Len(raw.bicycles) :
       raw.bicycles[i].GRADE = Num(77) /\ bicycles[i].GRADE = Num(77)

\* C18: a run on tables with a collision of (CRN, UNIT_NUM) among the
\* bicycles or of (CRN, UNIT_NUM, PERSON_NUM) among the persons, other
\* than the one of the person row that the repair names, does not come to
\* its end and exports nothing.
C18_KeyCollisionAborts ==
  ~RawKeysUnique => (pc # "done" /\ exported = <<>>)

\* C19: no run exports a cyclists table with a row whose CRN is the CRN
\* of no crash: such a run does not come to its end and exports nothing.
C19_JoinGapAborts ==
  (\E i \in 1..Len(cyclists) : \A c \in 1..Len(raw.crashes) : raw.crashes[c].CRN # cyclists[i].CRN)
    => (pc # "done" /\ exported = <<>>)

\* The stage of the step at pc: 1 recode, 2 resolve, 3 join, 4 immediate
\* imputation, 5 derivation of the target, 6 export and end; cf is the
\* stage given to the weather and road-condition inference.
StageOf(p, cf) ==
  CASE p \in {"recode_bicycles", "recode_persons", "recode_crashes"} -> 1
    [] p \in {"count_to_presence", "consolidate_weather", "repair_geolocation", "fill_hour",
              "fill_speed_limit"} -> 2
    [] p \in {"merge_roadway", "merge_bicycles", "merge_crashes"} -> 3
    [] p = "cross_fill" -> cf
    [] p = "fill_unknown" -> 4
    [] p = "derive" -> 5
    [] OTHER -> 6

\* The four columns that get the category 'unknown'.
UnknownFilled(t) ==
  \A i \in 1..Len(t) :
    \A f \in {"RESTRAINT_HELMET", "IMPACT_SIDE", "GRADE", "VEH_POSITION"} : ~IsNaN(t[i][f])

\* What each stage finds done when it starts: the join finds the crashes
\* resolved, the immediate imputation finds cyclists joined, the derivation
\* finds the 'unknown' fills done, the export finds the derived columns.
StagesBuildOnEarlier ==
  /\ pc = "merge_bicycles" =>
       \A i \in 1..Len(crashes) :
         /\ {"WEATHER", "BUS", "SPEED_LIMIT"} \subseteq DOMAIN crashes[i]
         /\ {"WEATHER1", "WEATHER2", "DISPATCH_TM"} \cap DOMAIN crashes[i] = {}
  /\ pc \in {"cross_fill", "fill_unknown"} =>
       \A i \in 1..Len(cyclists) :
         /\ {"WEATHER", "ROAD_CONDITION", "IMPACT_SIDE"} \subseteq DOMAIN cyclists[i]
         /\ {"SERIOUS_OR_FATALITY", "AGE_BINS"} \cap DOMAIN cyclists[i] = {}
  /\ pc = "derive" =>
       /\ UnknownFilled(cyclists)
       /\ \A i \in 1..Len(cyclists) :
            {"SERIOUS_OR_FATALITY", "AGE_BINS"} \cap DOMAIN cyclists[i] = {}
  /\ pc = "export" =>
       /\ UnknownFilled(cyclists)
       /\ \A i \in 1..Len(cyclists) :
            {"SERIOUS_OR_FATALITY", "AGE_BINS"} \subseteq DOMAIN cyclists[i]

\* C20 as stated: the steps run in the order recode, resolve, join,
\* immediate imputation, derivation, with the inference of the weather
\* from a dry road and of a wet road from rain among the resolver rules,
\* before the join that builds cyclists.
C20_StepOrder ==
  [][StageOf(pc, 2) <= StageOf(pc', 2)]_vars

\* C20 amended: the steps run in the order recode, resolve, join, immediate
\* imputation, derivation, each stage finding the work of the earlier ones
\* done; the inference of the weather from a dry road and of a wet road
\* from rain runs after the join, on cyclists alone (the crashes table is
\* left as it is), and before the 'unknown' fills; the target and the age
\* bins come last.
C20_StepOrderAmended ==
  /\ [][StageOf(pc, 4) <= StageOf(pc', 4)]_vars
  /\ [][pc = "cross_fill" => (pc' = "fill_unknown" /\ crashes' = crashes)]_vars
  /\ []StagesBuildOnEarlier

\* The end of a run in which the inference acted after the join: a
\* cyclist has the weather 'clear' that its crash, still without weather
\* in the exported crashes table, never got, and has its derived columns.
C20_Witness ==
  /\ pc = "done"
  /\ \E i \in 1..Len(exported.cyclists) :
       /\ exported.cyclists[i].WEATHER = Str("clear")
       /\ "AGE_BINS" \in DOMAIN exported.cyclists[i]
       /\ \E c \in 1..Len(exported.crashes) :
            /\ exported.crashes[c].CRN = exported.cyclists[i].CRN
            /\ exported.crashes[c].ROAD_CONDITION = Str("dry")
            /\ IsNaN(exported.crashes[c].WEATHER)

\* The unit numbers that the other raw bicycles of the crash of row i
\* carry.
OtherUnits(i) ==
  {RawBicycleKeys[j].UNIT_NUM[2] :
     j \in {k \in 1..Len(raw.bicycles) :
              /\ k # i
              /\ raw.bicycles[k].CRN = raw.bicycles[i].CRN
              /\ IsNum(RawBicycleKeys[k].UNIT_NUM)}}

\* C21: a bicycle without a unit number (missing, 'U' or 99) gets the
\* first available unit number of its crash, the smallest one that no
\* other unit of the same CRN carries, so that its key is the key of no
\* other bicycle.
C21_FirstAvailableUnit ==
  BicyclesRecoded =>
    \A i \in 1..Len(raw.bicycles) :
      IsNaN(RawBicycleKeys[i].UNIT_NUM) =>
        /\ bicycles[i].UNIT_NUM =
             Num(SetMin({n \in 1..(Len(raw.bicycles) + 1) : n \notin OtherUnits(i)}))
        /\ \A j \in 1..Len(bicycles) :
             j # i => ~(bicycles[j].CRN = bicycles[i].CRN
                         /\ bicycles[j].UNIT_NUM = bicycles[i].UNIT_NUM)

\* The raw person rows that collide with a cyclist of their crash: another
\* row of the same CRN and UNIT_NUM is the cyclist (the person with the
\* bicycle helmet), and the row is not.
CollidesWithCyclist(i) ==
  /\ raw.persons[i].RESTRAINT_HELMET # Num(6)
  /\ \E j \in 1..Len(raw.persons) :
       /\ j # i
       /\ raw.persons[j].RESTRAINT_HELMET = Num(6)
       /\ raw.persons[j].CRN = raw.persons[i].CRN
       /\ CellEq(RawPersonKeys[j].UNIT_NUM, RawPersonKeys[i].UNIT_NUM)

\* The smallest unit number that no raw person row of the crash of row i
\* carries.
NextUnit(i) ==
  SetMin({n \in 1..(Len(raw.persons) + 1) :
            \A j \in 1..Len(raw.persons) :
              raw.persons[j].CRN = raw.persons[i].CRN => RawPersonKeys[j].UNIT_NUM # Num(n)})

\* C22: in every order of the rows of the persons file, the repair changes
\* the UNIT_NUM of the one person that collides on (CRN, UNIT_NUM) with the
\* cyclist of the crash, to the next available unit of that crash, and the
\* UNIT_NUM of every other person stays as read.
C22_RepairScoped ==
  PersonsRecoded =>
    /\ Len(persons) = Len(raw.persons)
    /\ \A i \in 1..Len(raw.persons) :
         /\ persons[i].CRN = raw.persons[i].CRN
         /\ persons[i].UNIT_NUM =
              IF CollidesWithCyclist(i) THEN Num(NextUnit(i)) ELSE RawPersonKeys[i].UNIT_NUM

\* C23: a bicycle whose VEH_ROLE is missing (absent, or not a number) is
\* given the role 'non_collision' only if its impact point is the code 0,
\* non_collision; with any other impact point it does not get that role.
C23_RoleFromImpactPoint ==
  BicyclesRecoded =>
    \A i \in 1..Len(raw.bicycles) :
      (IsNaN(ToNumeric(raw.bicycles[i].VEH_ROLE)) /\ bicycles[i].VEH_ROLE = Str("non_collision"))
        => Replace(raw.bicycles[i].IMPACT_POINT, UnitSentinelDict) = Num(0)

\* A raw hour cell in 0..24 or the sentinel 99, and a raw time cell in
\* 0..2400 or the sentinel 9999.
RawHourInRange(v) == IsNum(v) /\ (v[2] \in 0..24 \/ v[2] = 99)

RawTimeInRange(v) == IsNum(v) /\ (v[2] \in 0..2400 \/ v[2] = 9999)

\* C24: after the recode of HOUR_OF_DAY and its fallbacks, the hour of a
\* crash whose raw hour is in 0..24 or 99 and whose raw times are in
\* 0..2400 or 9999 is missing or in 0..23: a recorded 24 is 0, and a
\* fallback time of 2400 does not give 24.
C24_HourInRange ==
  HourFilled =>
    \A i \in 1..Len(raw.crashes) :
      (/\ RawHourInRange(raw.crashes[i].HOUR_OF_DAY)
       /\ RawTimeInRange(raw.crashes[i].TIME_OF_DAY)
       /\ RawTimeInRange(raw.crashes[i].DISPATCH_TM)
       /\ RawTimeInRange(raw.crashes[i].ARRIVAL_TM))
        => \/ IsNaN(crashes[i].HOUR_OF_DAY)
           \/ IsNum(crashes[i].HOUR_OF_DAY) /\ crashes[i].HOUR_OF_DAY[2] \in 0..23

====
